---- MODULE Spec2Model ----
(***************************************************************************)
(* State-machine model of cmd/containerd-stargz-grpc/main.go: the          *)
(* bootstrap of the stargz snapshotter daemon, its background serve task  *)
(* and its SIGINT-driven shutdown.                                         *)
(*                                                                         *)
(* Two tasks run in the process: the main goroutine (mainpc) and the      *)
(* goroutine started at main.go:117 (servepc).  The environment delivers  *)
(* interrupts, decides the outcome of every system call the program       *)
(* makes, and is the owner of the files the program reads or removes.     *)
(* os.Exit (through logrus' Fatal) and the return of main end the process *)
(* and with it every task: no action is enabled once proc # "alive".      *)
(***************************************************************************)
EXTENDS Integers, Sequences, FiniteSets, TLC

VARIABLES
    logLevel,      \* flag -log-level (main.go:49)
    printVersion,  \* flag -version (main.go:51)
    configPath,    \* flag -config (main.go:48)
    cfgFile,       \* what the file system holds at configPath
    sigIgnored,    \* the process was started with SIGINT ignored
    dirExists,     \* filepath.Dir(*address) exists
    fsAddr,        \* what the file system holds at *address
    removed,       \* what os.RemoveAll(*address) removed
    mainpc,        \* next statement of the main goroutine
    servepc,       \* position of the goroutine of main.go:117-121
    proc,          \* "alive", "exited" (os.Exit or return of main), "killed" (by SIGINT)
    exitCode,      \* exit status, meaningful when proc = "exited"
    level,         \* logrus' process-wide level
    formatter,     \* logrus' process-wide formatter
    config,        \* service.Config value of main.go:71
    rs,            \* the snapshotter: "none", "open", "closing", "closed"
    rsConfig,      \* the configuration the snapshotter was constructed with
    closeCount,    \* number of calls of rs.Close()
    closeErr,      \* what rs.Close() returned
    registered,    \* the snapshots service is registered on the gRPC server
    listener,      \* "none" or "bound"
    listenErr,     \* error of net.Listen
    subscribed,    \* signal.Notify(c, os.Interrupt) has run
    sigchan,       \* the channel c of waitForSIGINT
    delivered,     \* interrupts delivered to the process
    deliveredSub,  \* interrupts delivered after signal.Notify
    dropped,       \* interrupts discarded without reaching the channel
    observed,      \* the main goroutine received from c
    inflight,      \* requests the serve task has dispatched to rs and not finished
    conflicts,     \* handles a task accessed while the other task was using them
    stdout,        \* lines printed to standard output
    logs,          \* log calls made, in order
    trace          \* statements of main executed so far, in order

vars == <<logLevel, printVersion, configPath, cfgFile, sigIgnored, dirExists,
          fsAddr, removed, mainpc, servepc, proc, exitCode, level, formatter, config,
          rs, rsConfig, closeCount, closeErr, registered, listener, listenErr,
          subscribed, sigchan, delivered, deliveredSub, dropped, observed,
          inflight, conflicts, stdout, logs, trace>>

flagVars == <<logLevel, printVersion, configPath>>
envVars  == <<cfgFile, sigIgnored>>
fsVars   == <<dirExists, fsAddr, removed>>
sigVars  == <<subscribed, sigchan, delivered, deliveredSub, dropped, observed>>
snapVars == <<rs, rsConfig, closeCount, closeErr>>
netVars  == <<registered, listener, listenErr>>
logVars  == <<level, formatter>>
reqVars  == <<inflight, conflicts>>

----------------------------------------------------------------------------
(* Bounds *)

\* Interrupts the environment delivers in one run.
MaxInterrupts == 2

\* Requests the serve task handles at the same time.
MaxInFlight == 1

----------------------------------------------------------------------------
(* Constants of main.go *)

defaultConfigPath == "/etc/containerd-stargz-grpc/config.toml"

\* A second spelling of the default file and an explicit path.
ConfigPaths ==
    { defaultConfigPath,
      "/etc/containerd-stargz-grpc/./config.toml",
      "/no/such/file" }

\* logrus.AllLevels in the order of their numeric value, PanicLevel = 0.
LevelNames == <<"panic", "fatal", "error", "warn", "info", "debug", "trace">>

LevelNum(name) == (CHOOSE i \in 1..Len(LevelNames) : LevelNames[i] = name) - 1

PanicLevel == LevelNum("panic")
FatalLevel == LevelNum("fatal")
WarnLevel  == LevelNum("warn")
InfoLevel  == LevelNum("info")
DebugLevel == LevelNum("debug")

defaultLogLevel == InfoLevel

\* Values the -log-level flag takes in the model.
LogLevelInputs ==
    { "trace", "debug", "info", "warn", "error", "fatal", "panic",
      "warning", "INFO", "Debug", "verbose", "" }

\* strings.ToLower on the inputs of the model.
ToLower(s) ==
    CASE s = "INFO"  -> "info"
      [] s = "Debug" -> "debug"
      [] OTHER       -> s

\* ParseLevel without the lower-casing of the name.
ParseLevelCaseSensitive(s) ==
    IF s \in { LevelNames[i] : i \in 1..Len(LevelNames) }
    THEN [err |-> FALSE, lvl |-> LevelNum(s)]
    ELSE IF s = "warning"
    THEN [err |-> FALSE, lvl |-> WarnLevel]
    ELSE [err |-> TRUE, lvl |-> PanicLevel]

\* logrus.ParseLevel: the name is lower-cased, "warning" is a second name of
\* WarnLevel, and on error the zero Level (PanicLevel) is returned.
ParseLevel(s) ==
    LET l == ToLower(s) IN
    IF l \in { LevelNames[i] : i \in 1..Len(LevelNames) }
    THEN [err |-> FALSE, lvl |-> LevelNum(l)]
    ELSE IF l = "warning"
    THEN [err |-> FALSE, lvl |-> WarnLevel]
    ELSE [err |-> TRUE, lvl |-> PanicLevel]

\* What the file at the configuration path can be.
CfgFileStates == { "absent", "unreadable", "malformed", "wellformed" }

\* toml.DecodeFile(path, &config): the error and the value left in config.
DecodeFile(file, old) ==
    CASE file = "absent"     -> [err |-> "ENOENT", value |-> old]
      [] file = "unreadable" -> [err |-> "EACCES", value |-> old]
      [] file = "malformed"  -> [err |-> "syntax", value |-> old]
      [] file = "wellformed" -> [err |-> "nil",    value |-> "FileConfig"]

IsNotExist(err) == err = "ENOENT"

\* The condition of ConfigLoadFails without the exception for the default path.
ConfigLoadFailsAlways(err, path) == err # "nil"

\* The condition of main.go:79 under which the configuration load is fatal.
ConfigLoadFails(err, path) ==
    err # "nil" /\ ~(IsNotExist(err) /\ path = defaultConfigPath)

----------------------------------------------------------------------------
(* Logging and process exit *)

\* logrus writes an entry when the logger's level admits the entry's level.
LogEntry(l, msg) == [lvl |-> l, msg |-> msg, out |-> l <= level]

Log(l, msg) == logs' = Append(logs, LogEntry(l, msg))

\* Fatal as an error-level log call: nothing exits.
FatalNoExit(msg) ==
    /\ Log(FatalLevel, msg)
    /\ UNCHANGED <<proc, exitCode>>

\* Entry.Fatal / Entry.Fatalf: log at fatal level, then os.Exit(1).
Fatal(msg) ==
    /\ Log(FatalLevel, msg)
    /\ proc' = "exited"
    /\ exitCode' = 1

Step(name) == trace' = Append(trace, name)

\* The tasks that are inside a call on a handle: main inside rs.Close(), the
\* serve task inside a request it dispatched to rs, and the serve task inside
\* rpc.Serve(l), which holds the server and the listener until the process ends.
UsersOf(h) ==
    CASE h = "rs" ->
            (IF mainpc = "defer_close_wait" THEN {"main"} ELSE {})
            \cup (IF inflight > 0 THEN {"serve"} ELSE {})
      [] h \in {"rpc", "l"} ->
            (IF servepc = "serving" THEN {"serve"} ELSE {})

\* Task t starts a call on the handles hs: recorded are those another task is
\* inside a call on.
Access(t, hs) ==
    conflicts' = conflicts \cup { h \in hs : UsersOf(h) \ {t} # {} }

----------------------------------------------------------------------------
(* Initial state: the flags and the environment the process is started in *)

\* Capacity of the channel made at main.go:127.
ChanCap == 1

Init ==
    /\ logLevel \in LogLevelInputs
    /\ printVersion \in BOOLEAN
    /\ configPath \in ConfigPaths
    /\ cfgFile \in CfgFileStates
    /\ sigIgnored \in BOOLEAN
    /\ dirExists \in BOOLEAN
    /\ fsAddr \in (IF dirExists THEN {"none", "stale_socket", "regular_file"} ELSE {"none"})
    /\ removed = "unset"
    /\ mainpc = "parse_level"
    /\ servepc = "none"
    /\ proc = "alive"
    /\ exitCode = 0
    /\ level = defaultLogLevel
    /\ formatter = "text"
    /\ config = "ZeroConfig"
    /\ rs = "none"
    /\ rsConfig = "none"
    /\ closeCount = 0
    /\ closeErr = "unset"
    /\ registered = FALSE
    /\ listener = "none"
    /\ listenErr = "unset"
    /\ subscribed = FALSE
    /\ sigchan = <<>>
    /\ delivered = 0
    /\ deliveredSub = 0
    /\ dropped = 0
    /\ observed = FALSE
    /\ inflight = 0
    /\ conflicts = {}
    /\ stdout = <<>>
    /\ logs = <<>>
    /\ trace = <<>>

----------------------------------------------------------------------------
(* The main goroutine, main.go:54-124.  After a call of Fatal the next     *)
(* statement is never reached: the process has exited.                     *)

\* main.go:56-59
MainParseLevel ==
    /\ proc = "alive" /\ mainpc = "parse_level"
    /\ Step("ParseLevel")
    /\ mainpc' = "check_version"
    /\ IF ParseLevel(logLevel).err
       THEN Fatal("failed to prepare logger")
       ELSE UNCHANGED <<logs, proc, exitCode>>
    /\ UNCHANGED <<reqVars, flagVars, envVars, fsVars, sigVars, snapVars, netVars, logVars,
                   servepc, config, stdout>>

\* MainPrintVersion without the return after the version is printed.
MainPrintVersionNoReturn ==
    /\ proc = "alive" /\ mainpc = "check_version"
    /\ IF printVersion
       THEN /\ Step("PrintVersion")
            /\ stdout' = Append(stdout, <<"containerd-stargz-grpc", "Version", "Revision">>)
       ELSE UNCHANGED <<trace, stdout>>
    /\ mainpc' = "set_level"
    /\ UNCHANGED <<reqVars, flagVars, envVars, fsVars, sigVars, snapVars, netVars, logVars,
                   servepc, config, logs, proc, exitCode>>

\* main.go:60-63
MainPrintVersion ==
    /\ proc = "alive" /\ mainpc = "check_version"
    /\ IF printVersion
       THEN /\ Step("PrintVersion")
            /\ stdout' = Append(stdout, <<"containerd-stargz-grpc", "Version", "Revision">>)
            /\ proc' = "exited"
            /\ exitCode' = 0
            /\ mainpc' = "returned"
       ELSE /\ mainpc' = "set_level"
            /\ UNCHANGED <<trace, stdout, proc, exitCode>>
    /\ UNCHANGED <<reqVars, flagVars, envVars, fsVars, sigVars, snapVars, netVars, logVars,
                   servepc, config, logs>>

\* main.go:64-76
MainSetLevel ==
    /\ proc = "alive" /\ mainpc = "set_level"
    /\ Step("SetLevel")
    /\ level' = ParseLevel(logLevel).lvl
    /\ formatter' = "json"
    /\ mainpc' = "load_config"
    /\ UNCHANGED <<reqVars, flagVars, envVars, fsVars, sigVars, snapVars, netVars,
                   servepc, proc, exitCode, config, stdout, logs>>

\* main.go:78-81
MainLoadConfig ==
    /\ proc = "alive" /\ mainpc = "load_config"
    /\ Step("LoadConfig")
    /\ LET d == DecodeFile(cfgFile, config) IN
         /\ config' = d.value
         /\ IF ConfigLoadFails(d.err, configPath)
            THEN Fatal("failed to load config file")
            ELSE UNCHANGED <<logs, proc, exitCode>>
    /\ mainpc' = "new_snapshotter"
    /\ UNCHANGED <<reqVars, flagVars, envVars, fsVars, sigVars, snapVars, netVars, logVars,
                   servepc, stdout>>

\* main.go:83-86
MainNewSnapshotter ==
    /\ proc = "alive" /\ mainpc = "new_snapshotter"
    /\ Step("NewSnapshotter")
    /\ \E ok \in BOOLEAN :
         IF ok
         THEN /\ rs' = "open"
              /\ rsConfig' = config
              /\ UNCHANGED <<logs, proc, exitCode>>
         ELSE /\ Fatal("failed to configure snapshotter")
              /\ UNCHANGED <<rs, rsConfig>>
    /\ mainpc' = "register"
    /\ UNCHANGED <<reqVars, flagVars, envVars, fsVars, sigVars, closeCount, closeErr, netVars,
                   logVars, servepc, config, stdout>>

\* MainRegister without the call of RegisterSnapshotsServer.
MainRegisterNoService ==
    /\ proc = "alive" /\ mainpc = "register"
    /\ Step("Register")
    /\ mainpc' = "mkdir"
    /\ UNCHANGED <<reqVars, flagVars, envVars, fsVars, sigVars, snapVars, netVars,
                   logVars, servepc, proc, exitCode, config, stdout, logs>>

\* main.go:87-100: the deferred close is registered, the gRPC server is made
\* and the snapshotter is registered on it as the snapshots service.
MainRegister ==
    /\ proc = "alive" /\ mainpc = "register"
    /\ Step("Register")
    /\ registered' = TRUE
    /\ mainpc' = "mkdir"
    /\ UNCHANGED <<reqVars, flagVars, envVars, fsVars, sigVars, snapVars, listener, listenErr,
                   logVars, servepc, proc, exitCode, config, stdout, logs>>

\* main.go:102-105
MainMkdirAll ==
    /\ proc = "alive" /\ mainpc = "mkdir"
    /\ Step("MkdirAll")
    /\ \E ok \in BOOLEAN :
         IF dirExists \/ ok
         THEN /\ dirExists' = TRUE
              /\ UNCHANGED <<logs, proc, exitCode>>
         ELSE /\ Fatal("failed to create directory")
              /\ UNCHANGED dirExists
    /\ mainpc' = "remove"
    /\ UNCHANGED <<reqVars, flagVars, envVars, fsAddr, removed, sigVars, snapVars, netVars, logVars,
                   servepc, config, stdout>>

\* RemoveAll that reports success and removes nothing.
RemoveAllNoop(obj, ok) == obj

\* os.RemoveAll(path) on what the path holds: nothing is left at the path
\* when it succeeds, and the path is as it was when it fails.
RemoveAll(obj, ok) == IF ok THEN "none" ELSE obj

\* main.go:107-110
MainRemoveAll ==
    /\ proc = "alive" /\ mainpc = "remove"
    /\ Step("RemoveAll")
    /\ \E ok \in BOOLEAN :
         /\ fsAddr' = RemoveAll(fsAddr, ok)
         /\ IF ok
            THEN /\ removed' = fsAddr
                 /\ UNCHANGED <<logs, proc, exitCode>>
            ELSE /\ Fatal("failed to remove")
                 /\ UNCHANGED removed
    /\ mainpc' = "listen"
    /\ UNCHANGED <<reqVars, flagVars, envVars, dirExists, sigVars, snapVars, netVars, logVars,
                   servepc, config, stdout>>

\* net.Listen("unix", path): binding a path that holds a file fails with
\* EADDRINUSE; binding a free path succeeds or fails for another reason.
ListenErrors(obj) ==
    IF obj # "none" THEN {"EADDRINUSE"} ELSE {"nil", "EACCES"}

\* MainListen that, when net.Listen fails, logs the error and returns from
\* main with status 1 after the deferred function has run.
MainListenDeferOnFail ==
    /\ proc = "alive" /\ mainpc = "listen"
    /\ Step("Listen")
    /\ \E e \in ListenErrors(fsAddr) :
         /\ listenErr' = e
         /\ IF e = "nil"
            THEN /\ listener' = "bound"
                 /\ fsAddr' = "socket"
                 /\ UNCHANGED <<logs, proc, exitCode, rs, closeCount>>
            ELSE /\ logs' = logs \o <<LogEntry(FatalLevel, "error on listen socket"),
                                      LogEntry(DebugLevel, "Closing the snapshotter"),
                                      LogEntry(InfoLevel, "Exiting")>>
                 /\ rs' = "closed"
                 /\ closeCount' = closeCount + 1
                 /\ proc' = "exited"
                 /\ exitCode' = 1
                 /\ UNCHANGED <<listener, fsAddr>>
    /\ mainpc' = "go_serve"
    /\ UNCHANGED <<reqVars, flagVars, envVars, dirExists, removed, sigVars, rsConfig, closeErr,
                   registered, logVars, servepc, config, stdout>>

\* MainListen that tries again when net.Listen fails.
MainListenRetry ==
    /\ proc = "alive" /\ mainpc = "listen"
    /\ Step("Listen")
    /\ \E e \in ListenErrors(fsAddr) :
         /\ listenErr' = e
         /\ IF e = "nil"
            THEN /\ listener' = "bound"
                 /\ fsAddr' = "socket"
                 /\ mainpc' = "go_serve"
            ELSE /\ mainpc' = "listen"
                 /\ UNCHANGED <<listener, fsAddr>>
    /\ UNCHANGED <<reqVars, flagVars, envVars, dirExists, removed, sigVars, snapVars, registered,
                   logVars, servepc, config, stdout, logs, proc, exitCode>>

\* MainListen without the check of the error of net.Listen.
MainListenIgnoreErr ==
    /\ proc = "alive" /\ mainpc = "listen"
    /\ Step("Listen")
    /\ \E e \in ListenErrors(fsAddr) :
         /\ listenErr' = e
         /\ IF e = "nil"
            THEN /\ listener' = "bound"
                 /\ fsAddr' = "socket"
            ELSE UNCHANGED <<listener, fsAddr>>
    /\ mainpc' = "go_serve"
    /\ UNCHANGED <<reqVars, flagVars, envVars, dirExists, removed, sigVars, snapVars, registered,
                   logVars, servepc, config, stdout, logs, proc, exitCode>>

\* main.go:112-116
MainListen ==
    /\ proc = "alive" /\ mainpc = "listen"
    /\ Step("Listen")
    /\ \E e \in ListenErrors(fsAddr) :
         /\ listenErr' = e
         /\ IF e = "nil"
            THEN /\ listener' = "bound"
                 /\ fsAddr' = "socket"
                 /\ UNCHANGED <<logs, proc, exitCode>>
            ELSE /\ Fatal("error on listen socket")
                 /\ UNCHANGED <<listener, fsAddr>>
    /\ mainpc' = "go_serve"
    /\ UNCHANGED <<reqVars, flagVars, envVars, dirExists, removed, sigVars, snapVars, registered,
                   logVars, servepc, config, stdout>>

\* main.go:117: the go statement starts the serve task.
MainGoServe ==
    /\ proc = "alive" /\ mainpc = "go_serve"
    /\ Step("GoServe")
    /\ servepc' = "spawned"
    /\ mainpc' = "notify"
    /\ UNCHANGED <<reqVars, flagVars, envVars, fsVars, sigVars, snapVars, netVars, logVars,
                   proc, exitCode, config, stdout, logs>>

\* main.go:122, 127-128: waitForSIGINT makes the channel and subscribes it.
MainNotify ==
    /\ proc = "alive" /\ mainpc = "notify"
    /\ Step("Notify")
    /\ subscribed' = TRUE
    /\ sigchan' = <<>>
    /\ mainpc' = "wait"
    /\ UNCHANGED <<reqVars, flagVars, envVars, fsVars, delivered, deliveredSub, dropped, observed,
                   snapVars, netVars, logVars, servepc, proc, exitCode, config,
                   stdout, logs>>

\* MainReceive as a receive that does not block on an empty channel.
MainReceiveNoWait ==
    /\ proc = "alive" /\ mainpc = "wait"
    /\ Step("Receive")
    /\ IF Len(sigchan) > 0
       THEN /\ sigchan' = Tail(sigchan)
            /\ observed' = TRUE
       ELSE UNCHANGED <<sigchan, observed>>
    /\ mainpc' = "got_sigint"
    /\ UNCHANGED <<reqVars, flagVars, envVars, fsVars, subscribed, delivered, deliveredSub, dropped,
                   snapVars, netVars, logVars, servepc, proc, exitCode, config,
                   stdout, logs>>

\* main.go:129: <-c blocks until the channel holds a signal.
MainReceive ==
    /\ proc = "alive" /\ mainpc = "wait"
    /\ Len(sigchan) > 0
    /\ Step("Receive")
    /\ sigchan' = Tail(sigchan)
    /\ observed' = TRUE
    /\ mainpc' = "got_sigint"
    /\ UNCHANGED <<reqVars, flagVars, envVars, fsVars, subscribed, delivered, deliveredSub, dropped,
                   snapVars, netVars, logVars, servepc, proc, exitCode, config,
                   stdout, logs>>

\* main.go:123
MainLogGotSIGINT ==
    /\ proc = "alive" /\ mainpc = "got_sigint"
    /\ Step("LogGotSIGINT")
    /\ Log(InfoLevel, "Got SIGINT")
    /\ mainpc' = "defer_log_closing"
    /\ UNCHANGED <<reqVars, flagVars, envVars, fsVars, sigVars, snapVars, netVars, logVars,
                   servepc, proc, exitCode, config, stdout>>

\* main.go:124, 88: main returns and its deferred function starts.
MainLogClosing ==
    /\ proc = "alive" /\ mainpc = "defer_log_closing"
    /\ Step("LogClosing")
    /\ Log(DebugLevel, "Closing the snapshotter")
    /\ mainpc' = "defer_close"
    /\ UNCHANGED <<reqVars, flagVars, envVars, fsVars, sigVars, snapVars, netVars, logVars,
                   servepc, proc, exitCode, config, stdout>>

\* MainCloseCall with the gRPC server stopped before the snapshotter is closed.
MainCloseCallStopServer ==
    /\ proc = "alive" /\ mainpc = "defer_close"
    /\ Step("Close")
    /\ Access("main", {"rpc", "l", "rs"})
    /\ servepc' = IF servepc = "none" THEN servepc ELSE "stopped"
    /\ rs' = "closing"
    /\ closeCount' = closeCount + 1
    /\ mainpc' = "defer_close_wait"
    /\ UNCHANGED <<inflight, flagVars, envVars, fsVars, sigVars, rsConfig, closeErr, netVars,
                   logVars, proc, exitCode, config, stdout, logs>>

\* main.go:89: rs.Close() is called.
MainCloseCall ==
    /\ proc = "alive" /\ mainpc = "defer_close"
    /\ Step("Close")
    /\ Access("main", {"rs"})
    /\ rs' = "closing"
    /\ closeCount' = closeCount + 1
    /\ mainpc' = "defer_close_wait"
    /\ UNCHANGED <<inflight, flagVars, envVars, fsVars, sigVars, rsConfig, closeErr, netVars,
                   logVars, servepc, proc, exitCode, config, stdout, logs>>

\* MainCloseReturn with a failure of rs.Close() made fatal.
MainCloseReturnFatal ==
    /\ proc = "alive" /\ mainpc = "defer_close_wait"
    /\ Step("CloseReturned")
    /\ \E e \in {"nil", "err"} :
         /\ closeErr' = e
         /\ IF e = "err"
            THEN Fatal("failed to close the snapshotter")
            ELSE UNCHANGED <<logs, proc, exitCode>>
    /\ rs' = "closed"
    /\ mainpc' = "defer_log_exiting"
    /\ UNCHANGED <<reqVars, flagVars, envVars, fsVars, sigVars, rsConfig, closeCount, netVars,
                   logVars, servepc, config, stdout>>

\* MainCloseReturn with the deferred function left at once when rs.Close() fails.
MainCloseReturnSkipsExiting ==
    /\ proc = "alive" /\ mainpc = "defer_close_wait"
    /\ Step("CloseReturned")
    /\ \E e \in {"nil", "err"} :
         /\ closeErr' = e
         /\ mainpc' = IF e = "err" THEN "return" ELSE "defer_log_exiting"
    /\ rs' = "closed"
    /\ UNCHANGED <<reqVars, flagVars, envVars, fsVars, sigVars, rsConfig, closeCount, netVars,
                   logVars, servepc, proc, exitCode, config, stdout, logs>>

\* main.go:89: rs.Close() returns; its result is discarded.  A Close that
\* hangs is a run in which this step is never taken.
MainCloseReturn ==
    /\ proc = "alive" /\ mainpc = "defer_close_wait"
    /\ Step("CloseReturned")
    /\ \E e \in {"nil", "err"} : closeErr' = e
    /\ rs' = "closed"
    /\ mainpc' = "defer_log_exiting"
    /\ UNCHANGED <<reqVars, flagVars, envVars, fsVars, sigVars, rsConfig, closeCount, netVars,
                   logVars, servepc, proc, exitCode, config, stdout, logs>>

\* main.go:90
MainLogExiting ==
    /\ proc = "alive" /\ mainpc = "defer_log_exiting"
    /\ Step("LogExiting")
    /\ Log(InfoLevel, "Exiting")
    /\ mainpc' = "return"
    /\ UNCHANGED <<reqVars, flagVars, envVars, fsVars, sigVars, snapVars, netVars, logVars,
                   servepc, proc, exitCode, config, stdout>>

\* MainReturn that waits for the serve task to be over before the process exits.
MainReturnWaitsForServe ==
    /\ proc = "alive" /\ mainpc = "return"
    /\ servepc \notin {"spawned", "serving"}
    /\ Step("Return")
    /\ proc' = "exited"
    /\ exitCode' = 0
    /\ mainpc' = "returned"
    /\ UNCHANGED <<reqVars, flagVars, envVars, fsVars, sigVars, snapVars, netVars, logVars,
                   servepc, config, stdout, logs>>

\* MainReturn with the listener closed, which unlinks the socket file, before
\* the process exits.
MainReturnClosesListener ==
    /\ proc = "alive" /\ mainpc = "return"
    /\ Step("Return")
    /\ listener' = "none"
    /\ fsAddr' = "none"
    /\ proc' = "exited"
    /\ exitCode' = 0
    /\ mainpc' = "returned"
    /\ UNCHANGED <<reqVars, flagVars, envVars, dirExists, removed, sigVars, snapVars,
                   registered, listenErr, logVars, servepc, config, stdout, logs>>

\* main.go:91, 124: the deferred function is over, main has returned and the
\* Go runtime exits the process with status 0.
MainReturn ==
    /\ proc = "alive" /\ mainpc = "return"
    /\ Step("Return")
    /\ proc' = "exited"
    /\ exitCode' = 0
    /\ mainpc' = "returned"
    /\ UNCHANGED <<reqVars, flagVars, envVars, fsVars, sigVars, snapVars, netVars, logVars,
                   servepc, config, stdout, logs>>

----------------------------------------------------------------------------
(* The serve task, main.go:117-121 *)

\* main.go:118: rpc.Serve(l) enters its accept loop.
ServeBegin ==
    /\ proc = "alive" /\ servepc = "spawned"
    /\ Access("serve", {"rpc", "l"})
    /\ servepc' = "serving"
    /\ UNCHANGED <<inflight, flagVars, envVars, fsVars, sigVars, snapVars, netVars, logVars,
                   mainpc, proc, exitCode, config, stdout, logs, trace>>

\* main.go:97-100, 118: inside rpc.Serve the server accepts a connection and
\* dispatches a request to the registered service, which calls the snapshotter.
ServeRequestBegin ==
    /\ proc = "alive" /\ servepc = "serving"
    /\ registered
    /\ inflight < MaxInFlight
    /\ Access("serve", {"rs"})
    /\ inflight' = inflight + 1
    /\ UNCHANGED <<flagVars, envVars, fsVars, sigVars, snapVars, netVars, logVars,
                   mainpc, servepc, proc, exitCode, config, stdout, logs, trace>>

\* The snapshotter's answer to a request is sent and the request is over.
ServeRequestEnd ==
    /\ proc = "alive" /\ servepc = "serving"
    /\ inflight > 0
    /\ inflight' = inflight - 1
    /\ UNCHANGED <<conflicts, flagVars, envVars, fsVars, sigVars, snapVars, netVars, logVars,
                   mainpc, servepc, proc, exitCode, config, stdout, logs, trace>>

\* ServeError with the error logged and the process left running.
ServeErrorLogOnly ==
    /\ proc = "alive" /\ servepc = "serving"
    /\ servepc' = "failed"
    /\ Log(FatalLevel, "error on serving via socket")
    /\ UNCHANGED <<reqVars, flagVars, envVars, fsVars, sigVars, snapVars, netVars, logVars,
                   mainpc, config, stdout, trace, proc, exitCode>>

\* main.go:118-120: rpc.Serve(l) returns an error and the task calls Fatalf.
ServeError ==
    /\ proc = "alive" /\ servepc = "serving"
    /\ servepc' = "failed"
    /\ Fatal("error on serving via socket")
    /\ UNCHANGED <<reqVars, flagVars, envVars, fsVars, sigVars, snapVars, netVars, logVars,
                   mainpc, config, stdout, trace>>

----------------------------------------------------------------------------
(* The environment *)

\* os/signal: a SIGINT that no channel is subscribed to ends the program,
\* or is discarded when the program was started with SIGINT ignored.
InterruptUnsubscribed ==
    /\ proc = "alive" /\ ~subscribed
    /\ delivered < MaxInterrupts
    /\ delivered' = delivered + 1
    /\ IF sigIgnored
       THEN /\ dropped' = dropped + 1
            /\ UNCHANGED <<proc>>
       ELSE /\ proc' = "killed"
            /\ UNCHANGED <<dropped>>
    /\ UNCHANGED <<reqVars, flagVars, envVars, fsVars, subscribed, sigchan, deliveredSub, observed,
                   snapVars, netVars, logVars, mainpc, servepc, exitCode, config,
                   stdout, logs, trace>>

\* InterruptSubscribed for a channel without a buffer whose receiver is not
\* yet blocked in the receive: the signal is discarded.
InterruptSubscribedUnbuffered ==
    /\ proc = "alive" /\ subscribed
    /\ delivered < MaxInterrupts
    /\ delivered' = delivered + 1
    /\ deliveredSub' = deliveredSub + 1
    /\ dropped' = dropped + 1
    /\ UNCHANGED <<reqVars, flagVars, envVars, fsVars, subscribed, observed, sigchan,
                   snapVars, netVars, logVars, mainpc, servepc, proc, exitCode, config,
                   stdout, logs, trace>>

\* os/signal after signal.Notify(c, os.Interrupt): the signal is sent to c
\* without blocking, so it is discarded when c is full.
InterruptSubscribed ==
    /\ proc = "alive" /\ subscribed
    /\ delivered < MaxInterrupts
    /\ delivered' = delivered + 1
    /\ deliveredSub' = deliveredSub + 1
    /\ IF Len(sigchan) < ChanCap
       THEN /\ sigchan' = Append(sigchan, "SIGINT")
            /\ UNCHANGED dropped
       ELSE /\ dropped' = dropped + 1
            /\ UNCHANGED sigchan
    /\ UNCHANGED <<reqVars, flagVars, envVars, fsVars, subscribed, observed,
                   snapVars, netVars, logVars, mainpc, servepc, proc, exitCode, config,
                   stdout, logs, trace>>

----------------------------------------------------------------------------

Next ==
    \/ MainParseLevel
    \/ MainPrintVersion
    \/ MainSetLevel
    \/ MainLoadConfig
    \/ MainNewSnapshotter
    \/ MainRegister
    \/ MainMkdirAll
    \/ MainRemoveAll
    \/ MainListen
    \/ MainGoServe
    \/ MainNotify
    \/ MainReceive
    \/ MainLogGotSIGINT
    \/ MainLogClosing
    \/ MainCloseCall
    \/ MainCloseReturn
    \/ MainLogExiting
    \/ MainReturn
    \/ ServeBegin
    \/ ServeRequestBegin
    \/ ServeRequestEnd
    \/ ServeError
    \/ InterruptUnsubscribed
    \/ InterruptSubscribed

Spec == Init /\ [][Next]_vars

----------------------------------------------------------------------------
(* Fairness: the Go scheduler runs the main goroutine whenever it can take *)
(* a step.  The return of rs.Close() is the engine's and is not assumed.   *)

MainRun ==
    \/ MainParseLevel \/ MainPrintVersion \/ MainSetLevel \/ MainLoadConfig
    \/ MainNewSnapshotter \/ MainRegister \/ MainMkdirAll \/ MainRemoveAll
    \/ MainListen \/ MainGoServe \/ MainNotify \/ MainReceive
    \/ MainLogGotSIGINT \/ MainLogClosing \/ MainCloseCall
    \/ MainLogExiting \/ MainReturn

FairSpec == Spec /\ WF_vars(MainRun)

----------------------------------------------------------------------------
(* Vocabulary of the properties *)

Has(name) == \E i \in DOMAIN trace : trace[i] = name

Pos(name) == IF Has(name) THEN CHOOSE i \in DOMAIN trace : trace[i] = name ELSE 0

Count(name) == Cardinality({ i \in DOMAIN trace : trace[i] = name })

LastStep == IF trace = <<>> THEN "none" ELSE trace[Len(trace)]

FatalLogged(msg) == \E i \in DOMAIN logs : logs[i].msg = msg /\ logs[i].lvl = FatalLevel

LogCalled(msg) == \E i \in DOMAIN logs : logs[i].msg = msg

NonZeroExit == proc = "exited" /\ exitCode # 0

\* The fatal message of each bootstrap step.
BootstrapFatal ==
    [ ParseLevel     |-> "failed to prepare logger",
      LoadConfig     |-> "failed to load config file",
      NewSnapshotter |-> "failed to configure snapshotter",
      MkdirAll       |-> "failed to create directory",
      RemoveAll      |-> "failed to remove",
      Listen         |-> "error on listen socket" ]

BootstrapSteps == DOMAIN BootstrapFatal

----------------------------------------------------------------------------
C2_FailFast ==
    \A st \in BootstrapSteps :
        FatalLogged(BootstrapFatal[st]) =>
            /\ NonZeroExit
            /\ LastStep = st
            /\ Count(st) = 1
            /\ servepc = "none"
            /\ ~Has("GoServe")
            /\ st = "LoadConfig" =>
                  (rs = "none" /\ listener = "none" /\ fsAddr # "socket"
                   /\ ~Has("NewSnapshotter") /\ ~Has("Listen"))

C2_Witness ==
    /\ FatalLogged(BootstrapFatal["LoadConfig"])
    /\ configPath = "/no/such/file" /\ cfgFile = "absent"
    /\ NonZeroExit

(* C3: when the serve task has been started, ParseLevel, SetLevel,         *)
(* LoadConfig, NewSnapshotter, Register, MkdirAll, RemoveAll and Listen    *)
(* were executed before it, in this order and each with success; and the   *)
(* serve task is started before main subscribes to and waits for the       *)
(* interrupt.                                                              *)
BootstrapOrder ==
    <<"ParseLevel", "SetLevel", "LoadConfig", "NewSnapshotter", "Register",
      "MkdirAll", "RemoveAll", "Listen", "GoServe">>

C3_BootstrapBeforeServe ==
    /\ servepc # "none" => Has("GoServe")
    /\ Has("GoServe") =>
          /\ \A i \in 1..(Len(BootstrapOrder) - 1) :
                /\ Pos(BootstrapOrder[i]) > 0
                /\ Pos(BootstrapOrder[i]) < Pos(BootstrapOrder[i + 1])
          /\ \A st \in BootstrapSteps : ~FatalLogged(BootstrapFatal[st])
          /\ ~ParseLevel(logLevel).err
          /\ level = ParseLevel(logLevel).lvl /\ formatter = "json"
          /\ ~ConfigLoadFails(DecodeFile(cfgFile, "ZeroConfig").err, configPath)
          /\ rs # "none" /\ registered
          /\ dirExists /\ removed # "unset"
          /\ listener = "bound" /\ listenErr = "nil" /\ fsAddr = "socket"
    /\ (subscribed \/ Has("Notify") \/ Has("Receive")) =>
          (Has("GoServe") /\ Pos("GoServe") < Pos("Notify"))
    /\ Has("Receive") => Pos("Notify") < Pos("Receive")

C3_Witness == servepc = "serving" /\ mainpc = "wait" /\ subscribed /\ proc = "alive"

(* C4: once the configuration load has run: a well-formed file leaves its  *)
(* decoded value in config and is not fatal; an absent file at the default *)
(* path leaves the zero configuration and is not fatal; every other case   *)
(* (malformed, unreadable, absent at another path) is fatal: the process   *)
(* has exited non-zero at this step.  The snapshotter is constructed with  *)
(* the resolved configuration.                                             *)
C4_ConfigResolution ==
    /\ Has("LoadConfig") =>
          CASE cfgFile = "wellformed" ->
                  /\ config = "FileConfig"
                  /\ ~FatalLogged(BootstrapFatal["LoadConfig"])
            [] cfgFile = "absent" /\ configPath = defaultConfigPath ->
                  /\ config = "ZeroConfig"
                  /\ ~FatalLogged(BootstrapFatal["LoadConfig"])
            [] OTHER ->
                  /\ FatalLogged(BootstrapFatal["LoadConfig"])
                  /\ NonZeroExit
                  /\ LastStep = "LoadConfig"
    /\ (cfgFile = "wellformed" \/ (cfgFile = "absent" /\ configPath = defaultConfigPath)) =>
          ~(proc = "exited" /\ LastStep = "LoadConfig")
    /\ rs # "none" => rsConfig = config

C4_Witness ==
    /\ cfgFile = "absent" /\ configPath = defaultConfigPath
    /\ rs = "open" /\ rsConfig = "ZeroConfig"

----------------------------------------------------------------------------
(* What the version flag leaves undone. *)
NothingStarted ==
    /\ ~Has("SetLevel") /\ ~Has("LoadConfig") /\ ~Has("NewSnapshotter")
    /\ ~Has("MkdirAll") /\ ~Has("RemoveAll") /\ ~Has("Listen") /\ ~Has("GoServe")
    /\ config = "ZeroConfig" /\ rs = "none" /\ ~registered
    /\ listener = "none" /\ fsAddr # "socket" /\ removed = "unset"
    /\ servepc = "none"

VersionLine == <<"containerd-stargz-grpc", "Version", "Revision">>

(* C5 as stated: with the version flag set, whatever the other flags are,  *)
(* the process that has exited has printed exactly one line with name,     *)
(* version and revision, has exit status 0 and has started nothing.        *)
C5_VersionForAnyFlags ==
    (printVersion /\ proc = "exited") =>
        /\ stdout = <<VersionLine>>
        /\ exitCode = 0
        /\ NothingStarted

(* C5 amended: with the version flag set nothing is ever started and at    *)
(* most one line is printed; the process that has exited has printed       *)
(* exactly the version line and has status 0 when the log level parses,    *)
(* and has printed nothing and has status 1, with the logger's fatal       *)
(* message, when the log level does not parse.                             *)
C5_VersionAfterLevelParse ==
    printVersion =>
        /\ NothingStarted
        /\ Len(stdout) <= 1
        /\ proc = "exited" =>
              IF logLevel \in {"trace", "debug", "info", "warn", "error", "fatal", "panic",
                               "warning", "INFO", "Debug"}
              THEN /\ stdout = <<VersionLine>>
                   /\ exitCode = 0
                   /\ logs = <<>>
              ELSE /\ stdout = <<>>
                   /\ exitCode = 1
                   /\ FatalLogged(BootstrapFatal["ParseLevel"])

C5_Witness ==
    /\ printVersion /\ proc = "exited" /\ exitCode = 0
    /\ stdout = <<VersionLine>> /\ configPath = "/no/such/file"

\* The level each of the seven documented names stands for.
DocumentedLevel(name) ==
    CASE name = "panic" -> 0
      [] name = "fatal" -> 1
      [] name = "error" -> 2
      [] name = "warn"  -> 3
      [] name = "info"  -> 4
      [] name = "debug" -> 5
      [] name = "trace" -> 6

DocumentedNames == {"trace", "debug", "info", "warn", "error", "fatal", "panic"}

LoggerFailedFatally ==
    /\ FatalLogged(BootstrapFatal["ParseLevel"])
    /\ NonZeroExit
    /\ trace = <<"ParseLevel">>
    /\ NothingStarted

AcceptedAs(name) ==
    CASE name \in DocumentedNames -> name
      [] name = "warning" -> "warn"
      [] name = "INFO"    -> "info"
      [] name = "Debug"   -> "debug"
      [] OTHER            -> "rejected"

C7_StaleSocketRemoved ==
    /\ (proc = "alive" /\ mainpc = "listen") => (fsAddr = "none" /\ removed # "unset")
    /\ Has("Listen") =>
          /\ Pos("RemoveAll") > 0 /\ Pos("RemoveAll") < Pos("Listen")
          /\ removed # "unset"
          /\ listenErr \in {"nil", "EACCES"}
          /\ fsAddr \in {"none", "socket"}
    /\ fsAddr \in {"stale_socket", "regular_file"} => (~Has("Listen") /\ listener = "none")
    /\ FatalLogged(BootstrapFatal["RemoveAll"]) =>
          (~Has("Listen") /\ listener = "none" /\ listenErr = "unset" /\ NonZeroExit)

C7_Witness == removed = "stale_socket" /\ listener = "bound" /\ listenErr = "nil"

----------------------------------------------------------------------------
\* The log calls made since the interrupt was received.
ShutdownLogs ==
    IF \E i \in DOMAIN logs : logs[i].msg = "Got SIGINT"
    THEN SubSeq(logs, CHOOSE i \in DOMAIN logs : logs[i].msg = "Got SIGINT", Len(logs))
    ELSE <<>>

ShutdownMsgs == [ i \in DOMAIN ShutdownLogs |-> ShutdownLogs[i].msg ]

C10_NoInterruptLost ==
    (delivered >= 1 /\ (proc = "alive" \/ proc = "killed")) =>
        (Len(sigchan) >= 1 \/ observed)

(* C10 amended: the subscription is made only when main enters             *)
(* waitForSIGINT, after the serve task was started.  From then on the      *)
(* channel holds one pending notification: an interrupt delivered after    *)
(* the subscription is pending or has been received, it never kills the    *)
(* process, and with main scheduled it leads to the call of rs.Close()     *)
(* unless the process ends first by the fatal exit of the serve task.  An  *)
(* interrupt delivered before the subscription is never received: it       *)
(* kills the process at once, or is discarded when the process was         *)
(* started with SIGINT ignored.                                            *)
C10_BufferedAfterNotify ==
    /\ [](deliveredSub >= 1 => (subscribed /\ (Len(sigchan) = 1 \/ observed)))
    /\ [](Len(sigchan) <= ChanCap)
    /\ [](observed => (deliveredSub >= 1 /\ proc # "killed"))
    /\ [](delivered > deliveredSub =>
            IF sigIgnored THEN dropped >= delivered - deliveredSub /\ proc # "killed"
            ELSE proc = "killed" /\ ~subscribed /\ ~observed /\ closeCount = 0)
    /\ [](subscribed => Has("GoServe"))
    /\ (deliveredSub >= 1 ~> (closeCount = 1 \/ proc # "alive"))

C10_Witness ==
    /\ deliveredSub >= 1 /\ observed /\ closeCount = 1 /\ sigchan = <<>>
    /\ proc = "alive"

----------------------------------------------------------------------------
(* The two states of the shutdown coordinator. *)
TeardownSteps ==
    {"LogGotSIGINT", "LogClosing", "Close", "CloseReturned", "LogExiting", "Return"}

TeardownPcs ==
    {"got_sigint", "defer_log_closing", "defer_close", "defer_close_wait",
     "defer_log_exiting", "return", "returned"}

Running == Has("GoServe") /\ ~Has("Receive")

Terminating == Has("GoServe") /\ Has("Receive")

(* C11: from the start of the serve task until main receives an interrupt  *)
(* main is subscribing or waiting: no teardown step has run, rs.Close()    *)
(* was not called and the process has not exited with status 0.            *)
(* Terminating is entered only by the receive of a pending interrupt, and  *)
(* once entered it is never left.                                          *)
C11_RunningUntilInterrupt ==
    /\ [](Running =>
            /\ ~observed
            /\ mainpc \in {"notify", "wait"}
            /\ \A st \in TeardownSteps : ~Has(st)
            /\ closeCount = 0 /\ rs = "open"
            /\ ~LogCalled("Got SIGINT") /\ ~LogCalled("Exiting")
            /\ ~(proc = "exited" /\ exitCode = 0))
    /\ []((Has("GoServe") /\ mainpc \in TeardownPcs) => Terminating)
    /\ [](Terminating => (observed /\ deliveredSub >= 1 /\ mainpc \in TeardownPcs))
    /\ [][(Running /\ Terminating') =>
            (mainpc = "wait" /\ Len(sigchan) >= 1 /\ sigchan' = Tail(sigchan))]_vars
    /\ [][Terminating => Terminating']_vars

C11_Witness ==
    /\ Terminating /\ LastStep = "Receive" /\ mainpc = "got_sigint"
    /\ servepc = "serving" /\ proc = "alive" /\ delivered = 1

----------------------------------------------------------------------------
Handles == {"rs", "rpc", "l"}

\* Main is inside rs.Close() and the serve task is in its loop.
CloseWhileServing ==
    proc = "alive" /\ mainpc = "defer_close_wait" /\ servepc = "serving"

(* C12 as stated: no handle is ever in use by the two tasks at once, no    *)
(* task starts a call on a handle the other task is inside a call on, and  *)
(* rs.Close() never executes while the serve task can dispatch a request.  *)
C12_NoSharedHandle ==
    /\ \A h \in Handles : Cardinality(UsersOf(h)) <= 1
    /\ conflicts = {}
    /\ ~CloseWhileServing

(* C12 amended: the listener and the server are each used by one task at a *)
(* time, handed from main to the serve task by the go statement and never  *)
(* touched by main again.  The snapshotter is the one shared handle: the   *)
(* serve task is never stopped before rs.Close(), so while main is inside  *)
(* rs.Close() the serve task can still dispatch a request to it, and       *)
(* Close can be called while a request is in progress.                     *)
C12_OnlySnapshotterShared ==
    /\ Cardinality(UsersOf("l")) <= 1
    /\ Cardinality(UsersOf("rpc")) <= 1
    /\ conflicts \subseteq {"rs"}
    /\ Has("GoServe") =>
          (Pos("Register") < Pos("GoServe") /\ Pos("Listen") < Pos("GoServe")
           /\ Count("Register") = 1 /\ Count("Listen") = 1)
    /\ (proc = "alive" /\ mainpc \in TeardownPcs /\ Has("GoServe")) =>
          servepc \in {"spawned", "serving"}
    /\ (CloseWhileServing /\ inflight < MaxInFlight) => ENABLED ServeRequestBegin
    /\ "rs" \in conflicts => Has("Close")

C12_Witness ==
    /\ "rs" \in conflicts /\ UsersOf("rs") = {"main", "serve"}
    /\ rs = "closing" /\ proc = "alive"

----------------------------------------------------------------------------
\* The statements of main from the receive of the interrupt on.
TeardownOrder ==
    <<"Receive", "LogGotSIGINT", "LogClosing", "Close", "CloseReturned",
      "LogExiting", "Return">>

\* The statements main has executed since the receive of the interrupt.
TeardownTrace ==
    IF Has("Receive") THEN SubSeq(trace, Pos("Receive"), Len(trace)) ELSE <<>>

IsPrefix(a, b) == Len(a) <= Len(b) /\ a = SubSeq(b, 1, Len(a))

(* C13: what main has executed since it received the interrupt is a prefix *)
(* of: log "Got SIGINT", log "Closing the snapshotter", call rs.Close(),   *)
(* return of Close, log "Exiting", return of main; so every step runs at   *)
(* most once and in this order.  When main has returned all of them have   *)
(* run, whatever rs.Close() returned, the three log calls were made in     *)
(* this order, and the process has exited with the return as last step.    *)
C13_TeardownOrder ==
    /\ IsPrefix(TeardownTrace, TeardownOrder)
    /\ \A st \in TeardownSteps : Has(st) => Has("Receive")
    /\ Has("Return") =>
          /\ TeardownTrace = TeardownOrder
          /\ closeErr \in {"nil", "err"}
          /\ ShutdownMsgs = <<"Got SIGINT", "Closing the snapshotter", "Exiting">>
          /\ closeCount = 1
          /\ proc = "exited" /\ LastStep = "Return"
    /\ (Has("CloseReturned") /\ proc = "alive") =>
          \/ mainpc = "defer_log_exiting" /\ LastStep = "CloseReturned"
          \/ mainpc = "return" /\ LastStep = "LogExiting"

C13_Witness ==
    /\ TeardownTrace = TeardownOrder /\ closeErr = "nil"
    /\ LogCalled("Exiting") /\ proc = "exited"

----------------------------------------------------------------------------
(* C14: from the receive of the interrupt on, the listener is bound, the   *)
(* socket file is at the socket path and the service is registered, also   *)
(* when the process has exited; no step changes them; no step of main      *)
(* changes the serve task; and a serve task that is in its accept loop     *)
(* stays in it for as long as the process is alive.                        *)
C14_TransportUntouched ==
    /\ [](observed =>
            /\ listener = "bound" /\ fsAddr = "socket" /\ registered
            /\ listenErr = "nil" /\ dirExists
            /\ servepc \in {"spawned", "serving", "failed"}
            /\ servepc = "failed" => NonZeroExit)
    /\ [][observed =>
            /\ listener' = listener /\ fsAddr' = fsAddr /\ registered' = registered
            /\ dirExists' = dirExists /\ listenErr' = listenErr
            /\ (servepc = "serving" /\ proc' = "alive") => servepc' = "serving"
            /\ mainpc' # mainpc => servepc' = servepc]_vars

C14_Witness ==
    /\ Has("Return") /\ proc = "exited" /\ exitCode = 0
    /\ listener = "bound" /\ fsAddr = "socket" /\ servepc = "serving"

----------------------------------------------------------------------------
(* C15: with main scheduled, once rs.Close() has returned, with or without *)
(* an error, the process eventually ends; it ends by the return of main    *)
(* while the serve task is still running (started or inside rpc.Serve).    *)
(* Main leaves rs.Close() only by the return of Close: there is no other   *)
(* step out of it, so main never returns before Close has returned.        *)
C15_ShutdownLiveness ==
    /\ (Has("CloseReturned") ~> proc # "alive")
    /\ (Has("CloseReturned") ~> (Has("Return") \/ servepc = "failed"))
    /\ [](Has("Return") =>
            (Has("CloseReturned") /\ servepc \in {"spawned", "serving"}))
    /\ []((proc = "alive" /\ mainpc = "defer_close_wait") =>
            (~Has("CloseReturned") /\ ~Has("LogExiting") /\ ~Has("Return")))
    /\ [][(mainpc = "defer_close_wait" /\ mainpc' # mainpc) =>
            (mainpc' = "defer_log_exiting" /\ rs' = "closed"
             /\ closeErr' \in {"nil", "err"})]_vars

C15_Witness ==
    /\ Has("Return") /\ closeErr = "nil" /\ proc = "exited"
    /\ servepc = "serving" /\ inflight = 1

----------------------------------------------------------------------------
(* C16: the snapshotter is constructed at most once, net.Listen is called  *)
(* at most once and the go statement that starts the serve task runs at    *)
(* most once; a snapshotter, a bound listener and a serve task exist only  *)
(* after their one creation, and the serve task never goes back to an      *)
(* earlier position.                                                       *)
C16_SingleInstances ==
    /\ [](/\ Count("NewSnapshotter") <= 1
          /\ Count("Register") <= 1
          /\ Count("Listen") <= 1
          /\ Count("GoServe") <= 1
          /\ rs # "none" => Count("NewSnapshotter") = 1
          /\ listener = "bound" => Count("Listen") = 1
          /\ servepc # "none" => Count("GoServe") = 1)
    /\ [][/\ rs # "none" => (rs' # "none" /\ rsConfig' = rsConfig)
          /\ listener = "bound" => listener' = "bound"
          /\ servepc = "spawned" => servepc' \in {"spawned", "serving"}
          /\ servepc = "serving" => servepc' \in {"serving", "failed"}
          /\ servepc = "failed" => servepc' = "failed"]_vars

C16_Witness ==
    /\ Count("NewSnapshotter") = 1 /\ Count("Listen") = 1 /\ Count("GoServe") = 1
    /\ rs = "closed" /\ listener = "bound" /\ servepc = "serving" /\ proc = "exited"

----------------------------------------------------------------------------
\* The fatal messages of the steps that follow the construction of the
\* snapshotter.
FatalAfterConstruction ==
    { BootstrapFatal["MkdirAll"], BootstrapFatal["RemoveAll"], BootstrapFatal["Listen"],
      "error on serving via socket" }

(* C17 as stated: when a step after the construction of the snapshotter    *)
(* has failed fatally, the process has exited non-zero, rs.Close() was     *)
(* never called and "Exiting" was never logged; rs.Close() is called only  *)
(* after the interrupt.                                                    *)
C17_FatalNeverAfterClose ==
    /\ \A msg \in FatalAfterConstruction :
          FatalLogged(msg) =>
              /\ NonZeroExit
              /\ rs # "none"
              /\ closeCount = 0
              /\ ~LogCalled("Exiting")
    /\ closeCount >= 1 => observed

(* C17 amended: a fatal exit runs no deferred teardown: the step that      *)
(* exits with status 1 calls no rs.Close() and logs no completion message. *)
(* After a failed MkdirAll, RemoveAll or Listen the snapshotter is open,   *)
(* Close was never called and neither teardown message was logged.  After  *)
(* a serve-loop error the same holds unless main had received the          *)
(* interrupt before: then Close was called and "Exiting" was logged        *)
(* exactly as far as main's own teardown had got when the serve task       *)
(* exited.  rs.Close() is called only on the interrupt path.               *)
C17_FatalRunsNoDefer ==
    /\ [](\A st \in {"MkdirAll", "RemoveAll", "Listen"} :
            FatalLogged(BootstrapFatal[st]) =>
                /\ NonZeroExit
                /\ rs = "open" /\ closeCount = 0
                /\ ~LogCalled("Closing the snapshotter") /\ ~LogCalled("Exiting"))
    /\ [](FatalLogged("error on serving via socket") =>
            /\ NonZeroExit /\ servepc = "failed"
            /\ closeCount = Count("Close")
            /\ LogCalled("Exiting") <=> Has("LogExiting")
            /\ ~observed =>
                  (rs = "open" /\ closeCount = 0
                   /\ ~LogCalled("Closing the snapshotter") /\ ~LogCalled("Exiting")))
    /\ [](closeCount >= 1 => (observed /\ Has("Receive")))
    /\ [][(proc = "alive" /\ proc' = "exited" /\ exitCode' = 1) =>
            /\ rs' = rs /\ closeCount' = closeCount /\ trace' \in {trace, Append(trace, LastStep')}
            /\ Len(logs') = Len(logs) + 1
            /\ logs'[Len(logs')].lvl = FatalLevel]_vars

C17_Witness ==
    /\ FatalLogged(BootstrapFatal["Listen"]) /\ NonZeroExit
    /\ rs = "open" /\ closeCount = 0 /\ registered

----------------------------------------------------------------------------
(* C18: whenever the listener is bound or the socket file of this process  *)
(* is at the socket path, the snapshotter has been constructed with        *)
(* success and registered on the gRPC server, both before net.Listen was   *)
(* called; so the serve task accepts connections, and dispatches requests, *)
(* only with the service registered.                                       *)
C18_ServiceBeforeSocket ==
    /\ (listener = "bound" \/ fsAddr = "socket") =>
          /\ rs # "none" /\ rsConfig = config
          /\ registered
          /\ ~FatalLogged(BootstrapFatal["NewSnapshotter"])
          /\ 0 < Pos("NewSnapshotter")
          /\ Pos("NewSnapshotter") < Pos("Register")
          /\ Pos("Register") < Pos("Listen")
    /\ servepc \in {"spawned", "serving", "failed"} =>
          (listener = "bound" /\ registered /\ rs # "none")
    /\ inflight > 0 => (servepc \in {"serving", "failed"} /\ registered /\ rs # "none")

C18_Witness ==
    /\ listener = "bound" /\ fsAddr = "socket" /\ registered /\ rs = "open"
    /\ mainpc = "go_serve" /\ servepc = "none" /\ proc = "alive"

====
